---- MODULE Spec2Model ----
(***************************************************************************)
(* Model of the command-line to-do list of src/main.py: the in-memory     *)
(* task list, the tasks.json file, and the menu operations (add, list,    *)
(* remove, clear) with the date parsing and (de)serialisation they use.   *)
(*                                                                         *)
(* A text (a Python str) is a sequence of one-character strings.  A       *)
(* datetime is a record of its fields and of its tzinfo (naive, or aware  *)
(* with a fixed UTC offset).  Python's None, where a datetime is          *)
(* expected, is the all-zero record (year 0 is below datetime.MINYEAR, so *)
(* no datetime has it).  The characters of the modelled texts are the      *)
(* ASCII characters and the non-ASCII whitespace characters U+0085, U+00A0 *)
(* and U+1680 (the further Unicode whitespace, U+2000..U+200A, U+2028,     *)
(* U+2029, U+202F, U+205F and U+3000, cannot be written in a string of     *)
(* this language, and is whitespace to the program as well).               *)
(***************************************************************************)
EXTENDS Integers, Sequences, FiniteSets, TLC

VARIABLES pc, tasks, file, last

vars == <<pc, tasks, file, last>>

(***************************************************************************)
(* Bounds.                                                                 *)
(***************************************************************************)
MaxTasks == 3

(***************************************************************************)
(* Characters and texts.                                                   *)
(***************************************************************************)
Digits == <<"0", "1", "2", "3", "4", "5", "6", "7", "8", "9">>

NonZeroDigits == {"1", "2", "3", "4", "5", "6", "7", "8", "9"}

UpperCase == <<"A", "B", "C", "D", "E", "F", "G", "H", "I", "J", "K", "L", "M",
               "N", "O", "P", "Q", "R", "S", "T", "U", "V", "W", "X", "Y", "Z">>

LowerCase == <<"a", "b", "c", "d", "e", "f", "g", "h", "i", "j", "k", "l", "m",
               "n", "o", "p", "q", "r", "s", "t", "u", "v", "w", "x", "y", "z">>

DigitSet == {"0", "1", "2", "3", "4", "5", "6", "7", "8", "9"}

IsDigit(c) == c \in DigitSet

DigitValue == [c \in DigitSet |-> (CHOOSE i \in 1..10 : Digits[i] = c) - 1]

DigitVal(c) == DigitValue[c]

\* the characters of the alphabet that are not ASCII, with the number of
\* bytes of their UTF-8 encoding
NonAscii == {"", " ", " "}

utf8_len(c) == IF c = " " THEN 3 ELSE IF c \in NonAscii THEN 2 ELSE 1

\* str.isspace() on the alphabet, the whitespace of str.strip and of the
\* regex \s: the blank, \t \n \r \f, the control characters 0x0b, 0x1c,
\* 0x1d, 0x1e, 0x1f, and U+0085, U+00A0, U+1680
Whitespace ==
    {" ", "\t", "\n", "\r", "\f", "", "", "", "", ""} \cup NonAscii

IsSpace(c) == c \in Whitespace

AllDigits(t) == \A i \in 1..Len(t) : IsDigit(t[i])

RECURSIVE LStrip(_)
LStrip(s) == IF s # <<>> /\ IsSpace(Head(s)) THEN LStrip(Tail(s)) ELSE s

RECURSIVE RStrip(_)
RStrip(s) ==
    IF s # <<>> /\ IsSpace(s[Len(s)]) THEN RStrip(SubSeq(s, 1, Len(s) - 1)) ELSE s

\* str.strip()
strip(s) == RStrip(LStrip(s))

\* str.lower(), one character
LowerChar(c) ==
    IF \E i \in 1..26 : UpperCase[i] = c
    THEN LowerCase[CHOOSE i \in 1..26 : UpperCase[i] = c]
    ELSE c

\* str.lower()
lower(s) == [i \in 1..Len(s) |-> LowerChar(s[i])]

RECURSIVE NumVal(_)
NumVal(t) ==
    IF t = <<>> THEN 0
    ELSE NumVal(SubSeq(t, 1, Len(t) - 1)) * 10 + DigitVal(t[Len(t)])

\* int() of a token a strptime field matched (digits, possibly a leading space)
TokVal(t) == NumVal(SelectSeq(t, IsDigit))

\* decimal digits of n, zero-padded to width w (the %04d / %02d of isoformat)
RECURSIVE Pad(_, _)
Pad(n, w) == IF w = 0 THEN <<>> ELSE Pad(n \div 10, w - 1) \o <<Digits[(n % 10) + 1]>>

(***************************************************************************)
(* datetime.                                                               *)
(***************************************************************************)
\* tzinfo: None (a naive datetime), or timezone(offset), the offset being
\* sign * (seconds + microseconds / 10^6), below 24 hours in magnitude
NoTz == [aware |-> FALSE, sign |-> 1, seconds |-> 0, microseconds |-> 0]

timezone(sign, seconds, microseconds) ==
    [aware |-> TRUE, sign |-> sign, seconds |-> seconds, microseconds |-> microseconds]

\* timezone.utc
utc == timezone(1, 0, 0)

None == [year |-> 0, month |-> 0, day |-> 0, hour |-> 0, minute |-> 0, second |-> 0,
         microsecond |-> 0, tzinfo |-> NoTz]

IsLeap(y) == (y % 4 = 0) /\ ((y % 100 # 0) \/ (y % 400 = 0))

DaysInMonth(y, m) ==
    IF m = 2 THEN (IF IsLeap(y) THEN 29 ELSE 28)
    ELSE IF m \in {4, 6, 9, 11} THEN 30 ELSE 31

\* the datetime constructor: the value, or None where it raises ValueError
datetime(y, mo, d, h, mi, s, us, tz) ==
    IF /\ y >= 1 /\ y <= 9999
       /\ mo >= 1 /\ mo <= 12
       /\ d >= 1 /\ d <= DaysInMonth(y, mo)
       /\ h >= 0 /\ h <= 23
       /\ mi >= 0 /\ mi <= 59
       /\ s >= 0 /\ s <= 59
       /\ us >= 0 /\ us <= 999999
    THEN [year |-> y, month |-> mo, day |-> d, hour |-> h, minute |-> mi, second |-> s,
          microsecond |-> us, tzinfo |-> tz]
    ELSE None

\* a < b raises TypeError ("can't compare offset-naive and offset-aware
\* datetimes") when exactly one of a, b is aware
Comparable(a, b) == a.tzinfo.aware = b.tzinfo.aware

\* a < b on naive datetimes: field by field, most significant first
DtLess(a, b) ==
    LET ka == <<a.year, a.month, a.day, a.hour, a.minute, a.second, a.microsecond>>
        kb == <<b.year, b.month, b.day, b.hour, b.minute, b.second, b.microsecond>>
    IN \E i \in 1..7 : /\ ka[i] < kb[i]
                       /\ \A j \in 1..(i - 1) : ka[j] = kb[j]

(***************************************************************************)
(* datetime.strptime: the regular expressions of its directives.  Each     *)
(* field of the two formats is followed by a literal, by whitespace or by  *)
(* the end of the text, and the whole text must be consumed, so a text     *)
(* matches in at most one way.                                             *)
(***************************************************************************)
\* %Y : \d\d\d\d
Y_re(t) == Len(t) = 4 /\ AllDigits(t)

\* %m : 1[0-2]|0[1-9]|[1-9]
m_re(t) ==
    \/ Len(t) = 2 /\ t[1] = "1" /\ t[2] \in {"0", "1", "2"}
    \/ Len(t) = 2 /\ t[1] = "0" /\ t[2] \in NonZeroDigits
    \/ Len(t) = 1 /\ t[1] \in NonZeroDigits

\* %d : 3[0-1]|[1-2]\d|0[1-9]|[1-9]| [1-9]
d_re(t) ==
    \/ Len(t) = 2 /\ t[1] = "3" /\ t[2] \in {"0", "1"}
    \/ Len(t) = 2 /\ t[1] \in {"1", "2"} /\ IsDigit(t[2])
    \/ Len(t) = 2 /\ t[1] = "0" /\ t[2] \in NonZeroDigits
    \/ Len(t) = 1 /\ t[1] \in NonZeroDigits
    \/ Len(t) = 2 /\ t[1] = " " /\ t[2] \in NonZeroDigits

\* %H : 2[0-3]|[0-1]\d|\d
H_re(t) ==
    \/ Len(t) = 2 /\ t[1] = "2" /\ t[2] \in {"0", "1", "2", "3"}
    \/ Len(t) = 2 /\ t[1] \in {"0", "1"} /\ IsDigit(t[2])
    \/ Len(t) = 1 /\ IsDigit(t[1])

\* %M : [0-5]\d|\d
M_re(t) ==
    \/ Len(t) = 2 /\ t[1] \in {"0", "1", "2", "3", "4", "5"} /\ IsDigit(t[2])
    \/ Len(t) = 1 /\ IsDigit(t[1])

\* the ways s matches %Y-%m-%d : the widths <<month, day>> of its fields
DateMatches(s) ==
    {w \in (1..2) \X (1..2) :
        /\ Len(s) = 6 + w[1] + w[2]
        /\ Y_re(SubSeq(s, 1, 4))
        /\ s[5] = "-"
        /\ m_re(SubSeq(s, 6, 5 + w[1]))
        /\ s[6 + w[1]] = "-"
        /\ d_re(SubSeq(s, 7 + w[1], 6 + w[1] + w[2]))}

\* the ways s matches %Y-%m-%d %H:%M (the blank of the format is \s+):
\* the widths <<month, day, hour, minute>> of its fields
DateTimeMatches(s) ==
    {w \in (1..2) \X (1..2) \X (1..2) \X (1..2) :
        LET dEnd == 6 + w[1] + w[2]
            hBeg == Len(s) - w[4] - w[3]
        IN  /\ hBeg > dEnd + 1
            /\ Y_re(SubSeq(s, 1, 4))
            /\ s[5] = "-"
            /\ m_re(SubSeq(s, 6, 5 + w[1]))
            /\ s[6 + w[1]] = "-"
            /\ d_re(SubSeq(s, 7 + w[1], dEnd))
            /\ \A i \in (dEnd + 1)..(hBeg - 1) : IsSpace(s[i])
            /\ H_re(SubSeq(s, hBeg, hBeg + w[3] - 1))
            /\ s[hBeg + w[3]] = ":"
            /\ M_re(SubSeq(s, hBeg + w[3] + 1, Len(s)))}

\* the formats of parse_datetime
FmtDateTime == "%Y-%m-%d %H:%M"

FmtDate == "%Y-%m-%d"

\* datetime.strptime(s, fmt): the datetime, or None where it raises ValueError
strptime(s, fmt) ==
    IF fmt = FmtDateTime
    THEN IF DateTimeMatches(s) = {} THEN None
         ELSE LET w == CHOOSE x \in DateTimeMatches(s) : TRUE
                  hBeg == Len(s) - w[4] - w[3]
              IN datetime(NumVal(SubSeq(s, 1, 4)),
                          TokVal(SubSeq(s, 6, 5 + w[1])),
                          TokVal(SubSeq(s, 7 + w[1], 6 + w[1] + w[2])),
                          TokVal(SubSeq(s, hBeg, hBeg + w[3] - 1)),
                          TokVal(SubSeq(s, hBeg + w[3] + 1, Len(s))),
                          0, 0, NoTz)
    ELSE IF DateMatches(s) = {} THEN None
         ELSE LET w == CHOOSE x \in DateMatches(s) : TRUE
              IN datetime(NumVal(SubSeq(s, 1, 4)),
                          TokVal(SubSeq(s, 6, 5 + w[1])),
                          TokVal(SubSeq(s, 7 + w[1], 6 + w[1] + w[2])),
                          0, 0, 0, 0, NoTz)

formats == <<FmtDateTime, FmtDate>>

\* dt.replace(hour=23, minute=59)
end_of_day_wrong(dt) == [dt EXCEPT !.hour = 23, !.minute = 0]

end_of_day(dt) == [dt EXCEPT !.hour = 23, !.minute = 59]

\* the loop of parse_datetime over formats[i..]
RECURSIVE parse_loop(_, _)
parse_loop(s, i) ==
    IF i > Len(formats) THEN None
    ELSE LET dt == strptime(s, formats[i])
         IN IF dt = None THEN parse_loop(s, i + 1)
            ELSE IF formats[i] = FmtDate
                 THEN end_of_day(dt)
                 ELSE dt

parse_datetime(input_str) == parse_loop(strip(input_str), 1)

(***************************************************************************)
(* datetime.isoformat.                                                     *)
(***************************************************************************)
\* (a wrong isoformat: the date alone)
isoformat_date(dt) ==
    Pad(dt.year, 4) \o <<"-">> \o Pad(dt.month, 2) \o <<"-">> \o Pad(dt.day, 2)

\* the UTC offset as isoformat writes it: +HH:MM[:SS[.ffffff]]
format_offset(tz) ==
    <<IF tz.sign < 0 THEN "-" ELSE "+">>
    \o Pad(tz.seconds \div 3600, 2) \o <<":">> \o Pad((tz.seconds % 3600) \div 60, 2)
    \o (IF tz.seconds % 60 # 0 \/ tz.microseconds # 0
        THEN <<":">> \o Pad(tz.seconds % 60, 2)
        ELSE <<>>)
    \o (IF tz.microseconds # 0 THEN <<".">> \o Pad(tz.microseconds, 6) ELSE <<>>)

isoformat(dt) ==
    Pad(dt.year, 4) \o <<"-">> \o Pad(dt.month, 2) \o <<"-">> \o Pad(dt.day, 2)
    \o <<"T">> \o Pad(dt.hour, 2) \o <<":">> \o Pad(dt.minute, 2)
    \o <<":">> \o Pad(dt.second, 2)
    \o (IF dt.microsecond # 0 THEN <<".">> \o Pad(dt.microsecond, 6) ELSE <<>>)
    \o (IF dt.tzinfo.aware THEN format_offset(dt.tzinfo) ELSE <<>>)

(***************************************************************************)
(* datetime.fromisoformat, as CPython 3.11 reads a text: a date            *)
(* (YYYY-MM-DD, YYYYMMDD, or an ISO week date YYYY-Www[-D], YYYYWww[D]),   *)
(* then optionally any one separator character and a time                  *)
(* HH[[:]MM[[:]SS[(.|,)f+]]] with an optional UTC offset (Z, or a sign and *)
(* a time of the same form).  It reads the UTF-8 bytes of the text.        *)
(* Positions are 1-based; the position one past the end holds NUL, the     *)
(* terminator the C code reads.  A U+0000 inside a text is that same byte, *)
(* written "" here.                                                        *)
(***************************************************************************)
NUL == ""

\* PyUnicode_AsUTF8AndSize: the bytes of the text; a byte of a character
\* that is not ASCII is written as that character (it is no digit and none
\* of the characters the parser looks for)
RECURSIVE utf8(_)
utf8(s) ==
    IF s = <<>> THEN <<>>
    ELSE [k \in 1..utf8_len(Head(s)) |-> Head(s)] \o utf8(Tail(s))

CharAt(s, i) == IF i >= 1 /\ i <= Len(s) THEN s[i] ELSE NUL

\* parse_digits: the value of the n digits of s at p, or -1
parse_digits(s, p, n) ==
    IF \A k \in 0..(n - 1) : IsDigit(CharAt(s, p + k))
    THEN NumVal(SubSeq(s, p, p + n - 1))
    ELSE -1

\* the proleptic Gregorian ordinal arithmetic (ordinal 1 is 0001-01-01)
days_before_year(y) ==
    (y - 1) * 365 + ((y - 1) \div 4) - ((y - 1) \div 100) + ((y - 1) \div 400)

RECURSIVE days_before_month(_, _)
days_before_month(y, m) ==
    IF m = 1 THEN 0 ELSE days_before_month(y, m - 1) + DaysInMonth(y, m - 1)

ymd_to_ord(y, m, d) == days_before_year(y) + days_before_month(y, m) + d

\* Monday is 0
weekday(y, m, d) == (ymd_to_ord(y, m, d) + 6) % 7

\* the ordinal of the Monday of ISO week 1 of the year
iso_week1_monday(y) ==
    LET first_day == ymd_to_ord(y, 1, 1)
        first_weekday == (first_day + 6) % 7
        week1_monday == first_day - first_weekday
    IN IF first_weekday > 3 THEN week1_monday + 7 ELSE week1_monday

\* the <<year, month, day>> of an ordinal >= 1
ord_to_ymd(ordinal) ==
    LET y == CHOOSE c \in (ordinal \div 366)..((ordinal \div 365) + 1) :
                 c >= 1 /\ days_before_year(c) < ordinal /\ ordinal <= days_before_year(c + 1)
        n == ordinal - days_before_year(y)
        m == CHOOSE c \in 1..12 :
                 days_before_month(y, c) < n /\ n <= days_before_month(y, c) + DaysInMonth(y, c)
    IN <<y, m, n - days_before_month(y, m)>>

NoDate == <<0, 0, 0>>

\* iso_to_ymd: the <<year, month, day>> of an ISO week date, or NoDate where
\* the week or the day is out of range (no week date of year 0000 is one of a
\* year the constructor accepts)
iso_to_ymd(iso_year, iso_week, iso_day) ==
    LET first_weekday == weekday(iso_year, 1, 1)
        has_53 == first_weekday = 3 \/ (first_weekday = 2 /\ IsLeap(iso_year))
    IN IF iso_year < 1 THEN NoDate
       ELSE IF (iso_week <= 0 \/ iso_week >= 53) /\ ~(iso_week = 53 /\ has_53) THEN NoDate
       ELSE IF iso_day <= 0 \/ iso_day >= 8 THEN NoDate
       ELSE ord_to_ymd(iso_week1_monday(iso_year) + (iso_week - 1) * 7 + iso_day - 1)

RECURSIVE SkipDigits(_, _)
SkipDigits(s, p) == IF IsDigit(CharAt(s, p)) THEN SkipDigits(s, p + 1) ELSE p

\* _find_isoformat_datetime_separator: the length of the date part (the
\* separator is the character after it), or -1; Len(s) >= 7
find_isoformat_datetime_separator(s) ==
    IF Len(s) = 7 THEN 7
    ELSE IF s[5] = "-"
    THEN IF s[6] = "W"
         THEN IF Len(s) > 8 /\ s[9] = "-"
              THEN IF Len(s) = 9 THEN -1
                   ELSE IF Len(s) > 10 /\ IsDigit(s[11]) THEN 8
                   ELSE 10
              ELSE 8
         ELSE 10
    ELSE IF s[5] = "W"
    THEN LET idx == SkipDigits(s, 8) - 1
         IN IF idx < 9 THEN idx
            ELSE IF idx % 2 = 0 THEN 7 ELSE 8
    ELSE 8

\* parse_isoformat_date: the <<year, month, day>> of the date part of length
\* len, or NoDate
parse_isoformat_date(s, len) ==
    LET year == parse_digits(s, 1, 4)
        uses_separator == CharAt(s, 5) = "-"
        p == IF uses_separator THEN 6 ELSE 5
    IN IF year < 0 THEN NoDate
       ELSE IF CharAt(s, p) = "W"
       THEN LET iso_week == parse_digits(s, p + 1, 2)
                q == p + 3
                has_day == q - 1 < len
                r == IF uses_separator THEN q + 1 ELSE q
                iso_day == IF has_day THEN parse_digits(s, r, 1) ELSE 1
            IN IF iso_week < 0 THEN NoDate
               ELSE IF has_day /\ uses_separator /\ CharAt(s, q) # "-" THEN NoDate
               ELSE IF iso_day < 0 THEN NoDate
               ELSE iso_to_ymd(year, iso_week, iso_day)
       ELSE LET month == parse_digits(s, p, 2)
                q == p + 2
                r == IF uses_separator THEN q + 1 ELSE q
                day == parse_digits(s, r, 2)
            IN IF month < 0 THEN NoDate
               ELSE IF uses_separator /\ CharAt(s, q) # "-" THEN NoDate
               ELSE IF day < 0 THEN NoDate
               ELSE <<year, month, day>>

\* the loop of parse_hh_mm_ss_ff over its fields i = 0, 1, 2 (hour, minute,
\* second) from position p of a section that ends before position e:
\* rv < 0 is an error, rv = 0 or 1 is the return value of the function
\* reached inside the loop, rv = 2 is the fraction yet to read at p
RECURSIVE hh_mm_ss(_, _, _, _, _, _)
hh_mm_ss(s, e, i, p, has_separator, vals) ==
    IF i = 3 THEN [rv |-> 2, vals |-> vals, p |-> p]
    ELSE LET d == parse_digits(s, p, 2)
             c == CharAt(s, p + 2)
             q == p + 3
             has == IF i = 0 THEN c = ":" ELSE has_separator
             v == [vals EXCEPT ![i + 1] = d]
         IN IF d < 0 THEN [rv |-> -3, vals |-> vals, p |-> p]
            ELSE IF q >= e THEN [rv |-> IF c # NUL THEN 1 ELSE 0, vals |-> v, p |-> q]
            ELSE IF has /\ c = ":" THEN hh_mm_ss(s, e, i + 1, q, has, v)
            ELSE IF c \in {".", ","} THEN [rv |-> 2, vals |-> v, p |-> q]
            ELSE IF ~has THEN hh_mm_ss(s, e, i + 1, q - 1, has, v)
            ELSE [rv |-> -4, vals |-> vals, p |-> p]

\* the factors that make 1..5 digits of a fraction microseconds
correction_table == <<100000, 10000, 1000, 100, 10>>

correction(n) == IF n < 6 THEN correction_table[n] ELSE 1

\* what parse_hh_mm_ss_ff returns: rv < 0 is an error, rv = 1 says the text
\* goes on after what was read
HmsResult(rv, vals, us) ==
    [rv |-> rv, hour |-> vals[1], minute |-> vals[2], second |-> vals[3], microsecond |-> us]

\* the end of parse_hh_mm_ss_ff, after its loop left f: the fraction, of
\* at most six digits that count, read from position f.p
hh_mm_ss_fraction(s, e, f, to_parse) ==
    IF f.rv # 2 THEN HmsResult(f.rv, f.vals, 0)
    ELSE IF parse_digits(s, f.p, to_parse) < 0 THEN HmsResult(-3, <<0, 0, 0>>, 0)
    ELSE HmsResult(IF CharAt(s, SkipDigits(s, f.p + to_parse)) # NUL THEN 1 ELSE 0,
                   f.vals,
                   parse_digits(s, f.p, to_parse) * correction(to_parse))

hh_mm_ss_ff(s, e, f) == hh_mm_ss_fraction(s, e, f, IF e - f.p >= 6 THEN 6 ELSE e - f.p)

\* parse_hh_mm_ss_ff on the section of s from position b to before e
parse_hh_mm_ss_ff(s, b, e) == hh_mm_ss_ff(s, e, hh_mm_ss(s, e, 0, b, TRUE, <<0, 0, 0>>))

NoTime == [ok |-> FALSE, hour |-> 0, minute |-> 0, second |-> 0, microsecond |-> 0,
           tzinfo |-> NoTz]

\* the time t with the tzinfo tz
TimeOf(t, tz) ==
    [ok |-> TRUE, hour |-> t.hour, minute |-> t.minute, second |-> t.second,
     microsecond |-> t.microsecond, tzinfo |-> tz]

\* tzinfo_from_isoformat_results: the time t with the offset read as o after
\* the sign; an offset of no whole second is UTC, one of 24 hours or more is
\* refused by timezone()
time_with_offset(t, tzsign, o, tzoffset) ==
    IF o.rv # 0 THEN NoTime
    ELSE IF tzoffset = 0 THEN TimeOf(t, utc)
    ELSE IF tzoffset >= 86400 THEN NoTime
    ELSE TimeOf(t, timezone(tzsign, tzoffset, o.microsecond))

\* the position of the first of Z, +, - at or after b, or e if there is none
find_tzinfo_pos(s, b, e) ==
    IF \E k \in b..(e - 1) : s[k] \in {"Z", "+", "-"}
    THEN CHOOSE k \in b..(e - 1) :
             /\ s[k] \in {"Z", "+", "-"}
             /\ \A j \in b..(k - 1) : s[j] \notin {"Z", "+", "-"}
    ELSE e

\* the end of parse_isoformat_time, the time t read up to tzinfo_pos; after
\* a Z the byte that follows is tested against NUL, not the position against
\* the end, so a text with U+0000 after the Z is read as one ending there
time_and_tzinfo(s, e, tzinfo_pos, t, o) ==
    IF t.rv < 0 THEN NoTime
    ELSE IF tzinfo_pos = e THEN (IF t.rv = 1 THEN NoTime ELSE TimeOf(t, NoTz))
    ELSE IF s[tzinfo_pos] = "Z"
    THEN (IF CharAt(s, tzinfo_pos + 1) # NUL THEN NoTime ELSE TimeOf(t, utc))
    ELSE time_with_offset(t, IF s[tzinfo_pos] = "-" THEN -1 ELSE 1, o,
                          o.hour * 3600 + o.minute * 60 + o.second)

time_before(s, b, e, tzinfo_pos) ==
    time_and_tzinfo(s, e, tzinfo_pos,
                    parse_hh_mm_ss_ff(s, b, tzinfo_pos),
                    parse_hh_mm_ss_ff(s, tzinfo_pos + 1, e))

\* parse_isoformat_time on the text of s from position b, then
\* tzinfo_from_isoformat_results: the time and its tzinfo, or NoTime
parse_isoformat_time(s, b) ==
    IF b = Len(s) + 1 THEN NoTime
    ELSE time_before(s, b, Len(s) + 1, find_tzinfo_pos(s, b, Len(s) + 1))

\* the datetime of a date and a time read
combine(date, time) ==
    IF date = NoDate \/ ~time.ok THEN None
    ELSE datetime(date[1], date[2], date[3], time.hour, time.minute, time.second,
                  time.microsecond, time.tzinfo)

\* the date is read up to separator_location, the time begins after the
\* bytes of the separator character
fromisoformat_at(s, separator_location) ==
    IF separator_location < 0 THEN None
    ELSE combine(parse_isoformat_date(s, separator_location),
                 IF Len(s) > separator_location
                 THEN parse_isoformat_time(s, separator_location + 1
                                              + utf8_len(s[separator_location + 1]))
                 ELSE [NoTime EXCEPT !.ok = TRUE])

fromisoformat_utf8(s) ==
    IF Len(s) < 7 THEN None
    ELSE fromisoformat_at(s, find_isoformat_datetime_separator(s))

\* datetime.fromisoformat(dtstr): the datetime, or None where it raises
\* ValueError
fromisoformat(dtstr) == fromisoformat_utf8(utf8(dtstr))

(***************************************************************************)
(* int(): the text without the whitespace around it, an optional sign,     *)
(* then decimal digits, where one underscore may stand between two digits. *)
(* The whitespace int() skips is that of C's isspace and the non-ASCII      *)
(* whitespace (which it first turns into blanks): the control characters   *)
(* 0x1c..0x1f, which str.strip removes, are not in it.                     *)
(***************************************************************************)
IntWhitespace == {" ", "\t", "\n", "\r", "\f", ""} \cup NonAscii

RECURSIVE IntLStrip(_)
IntLStrip(s) == IF s # <<>> /\ Head(s) \in IntWhitespace THEN IntLStrip(Tail(s)) ELSE s

RECURSIVE IntRStrip(_)
IntRStrip(s) ==
    IF s # <<>> /\ s[Len(s)] \in IntWhitespace
    THEN IntRStrip(SubSeq(s, 1, Len(s) - 1))
    ELSE s

\* digit (_? digit)*
IntLiteral(b) ==
    /\ b # <<>>
    /\ IsDigit(b[1])
    /\ IsDigit(b[Len(b)])
    /\ \A i \in 1..Len(b) : IsDigit(b[i]) \/ b[i] = "_"
    /\ \A i \in 1..(Len(b) - 1) : ~(b[i] = "_" /\ b[i + 1] = "_")

\* int(text): the value, or ok = FALSE where it raises ValueError
int(text) ==
    LET s == IntRStrip(IntLStrip(text))
        signed == s # <<>> /\ Head(s) \in {"+", "-"}
        body == IF signed THEN Tail(s) ELSE s
        n == NumVal(SelectSeq(body, IsDigit))
    IN IF IntLiteral(body)
       THEN [ok |-> TRUE, val |-> IF signed /\ Head(s) = "-" THEN 0 - n ELSE n]
       ELSE [ok |-> FALSE, val |-> 0]

(***************************************************************************)
(* Task and its dictionary form.  A dictionary read from the file is a     *)
(* function from some of the keys "name", "due" to texts.                  *)
(***************************************************************************)
Task(name, due) == [name |-> name, due |-> due]

to_dict(t) == [name |-> t.name, due |-> isoformat(t.due)]

\* Task.from_dict: the task, or the exception it raises
from_dict(d) ==
    IF "name" \notin DOMAIN d THEN [err |-> "KeyError", task |-> Task(<<>>, None)]
    ELSE IF "due" \notin DOMAIN d THEN [err |-> "KeyError", task |-> Task(<<>>, None)]
    ELSE IF fromisoformat(d["due"]) = None
         THEN [err |-> "ValueError", task |-> Task(<<>>, None)]
         ELSE [err |-> "", task |-> Task(d["name"], fromisoformat(d["due"]))]

(***************************************************************************)
(* The file tasks.json: absent, or present holding either text that is not *)
(* JSON or a JSON list of dictionaries.                                    *)
(***************************************************************************)
NoFile == [exists |-> FALSE, json |-> FALSE, data |-> <<>>]

NotJson == [exists |-> TRUE, json |-> FALSE, data |-> <<>>]

JsonFile(data) == [exists |-> TRUE, json |-> TRUE, data |-> data]

\* (a wrong list comprehension: one that skips the items from_dict rejects)
RECURSIVE from_dicts_skipping(_, _)
from_dicts_skipping(data, i) ==
    IF i > Len(data) THEN [err |-> "", tasks |-> <<>>]
    ELSE LET r == from_dict(data[i])
             rest == from_dicts_skipping(data, i + 1)
         IN IF r.err # "" THEN rest
            ELSE [err |-> "", tasks |-> <<r.task>> \o rest.tasks]

\* the list comprehension of load_tasks over data[i..], stopping at the
\* first item whose from_dict raises
RECURSIVE from_dicts(_, _)
from_dicts(data, i) ==
    IF i > Len(data) THEN [err |-> "", tasks |-> <<>>]
    ELSE LET r == from_dict(data[i])
         IN IF r.err # "" THEN [err |-> r.err, tasks |-> <<>>]
            ELSE LET rest == from_dicts(data, i + 1)
                 IN IF rest.err # "" THEN rest
                    ELSE [err |-> "", tasks |-> <<r.task>> \o rest.tasks]

\* load_tasks: the list, or the exception that leaves it
load_tasks(f) ==
    IF ~f.exists THEN [err |-> "", tasks |-> <<>>]
    ELSE IF ~f.json THEN [err |-> "JSONDecodeError", tasks |-> <<>>]
    ELSE from_dicts(f.data, 1)

(***************************************************************************)
(* sorted(tasks, key=lambda t: t.due): a stable sort.                      *)
(***************************************************************************)
\* s is sorted; x goes after every element whose due is not later than x's
RECURSIVE insert_by_due(_, _)
insert_by_due(x, s) ==
    IF s = <<>> THEN <<x>>
    ELSE IF DtLess(x.due, s[1].due) THEN <<x>> \o s
    ELSE <<s[1]>> \o insert_by_due(x, Tail(s))

RECURSIVE sorted_by_due(_)
sorted_by_due(ts) ==
    IF ts = <<>> THEN <<>>
    ELSE insert_by_due(ts[Len(ts)], sorted_by_due(SubSeq(ts, 1, Len(ts) - 1)))

\* list.remove(x): drops the first element equal to x
RECURSIVE list_remove(_, _)
list_remove(l, x) ==
    IF l = <<>> THEN l
    ELSE IF Head(l) = x THEN Tail(l)
    ELSE <<Head(l)>> \o list_remove(Tail(l), x)

\* (a wrong save_tasks: one that writes the list in due order)
save_tasks_sorted(ts) ==
    JsonFile([i \in 1..Len(ts) |-> to_dict(sorted_by_due(ts)[i])])

\* save_tasks: the file it leaves
save_tasks(ts) == JsonFile([i \in 1..Len(ts) |-> to_dict(ts[i])])

\* (a wrong mark: due <= now)
status_not_after(t, now) == ~DtLess(now, t.due)

\* "(telat)" is printed for the task
status(t, now) == DtLess(t.due, now)

\* sorted raises TypeError: a naive due and an aware due are in the list (a
\* sort that orders the list has compared some two such elements)
sorted_raises(ts) == \E i, j \in 1..Len(ts) : ~Comparable(ts[i].due, ts[j].due)

\* t.due < now raises TypeError: now is naive, t.due is aware
status_raises(t, now) == ~Comparable(t.due, now)

\* list_tasks on a list that is not empty: the lines it prints (number,
\* task, whether marked "(telat)") and the clock value it read, or the
\* exception that leaves it.  A list that sorted accepts holds dues of one
\* kind, so when they are aware the mark of the first task sorted put raises,
\* before any line is printed
list_tasks(ts, now) ==
    LET tasks_sorted == sorted_by_due(ts)
    IN IF sorted_raises(ts)
       THEN [err |-> "TypeError", now |-> None, lines |-> <<>>]
       ELSE IF status_raises(ts[1], now)
       THEN [err |-> "TypeError", now |-> now, lines |-> <<>>]
       ELSE [err |-> "", now |-> now,
             lines |-> [i \in 1..Len(ts) |->
                          [index |-> i, task |-> tasks_sorted[i],
                           overdue |-> status(tasks_sorted[i], now)]]]

(***************************************************************************)
(* What the user types and what the clock shows: small sets holding the    *)
(* accepted, the rejected and the boundary cases of every prompt, and the  *)
(* files the program may find when it starts.  A line read by input()      *)
(* holds no line break; a text of the file may hold any character.         *)
(***************************************************************************)
\* answers to "Nama tugas: "
NameInputs ==
    {<<>>,
     <<" ", "\f">>,
     <<"a">>,
     <<" ", "b", "\t">>}

\* answers to "Tenggat waktu (...): "
DueInputs ==
    {<<"2", "0", "2", "6", "-", "0", "2", "-", "0", "5", " ", "1", "4", ":", "3", "0">>,
     <<"2", "0", "2", "6", "-", "0", "2", "-", "0", "5">>,
     <<"b", "e", "s", "o", "k">>,
     <<"2", "0", "2", "6", "-", "2", "-", "5", " ", "1", "4", ":", "3", "0">>,
     <<"2", "0", "2", "6", "-", "0", "2", "-", "3", "0">>,
     <<"2", "0", "2", "6", "-", "0", "2", "-", "0", "5", " ", "2", "4", ":", "0", "0">>,
     <<"2", "0", "2", "6", "-", "0", "2", "-", "0", "5", "T", "1", "4", ":", "3", "0">>,
     <<"2", "0", "2", "6", "-", "0", "2", "-", "0", "5", "\f", "", "1", "4", ":", "3", "0">>,
     <<"", "2", "0", "2", "6", "-", "0", "2", "-", "0", "5", "\t">>}

\* answers to "Masukkan nomor tugas yang ingin dihapus: "
IndexInputs ==
    {<<"0">>,
     <<"0", "_", "1">>,
     <<"\f", "2", "\t">>,
     <<"3">>,
     <<"4">>,
     <<"-", "1">>,
     <<"", "1">>,
     <<"x">>}

\* answers to "Yakin ingin menghapus semua tugas? (y/N): "
ConfirmInputs ==
    {<<"y">>,
     <<"Y">>,
     <<"n">>,
     <<>>,
     <<" ", "y">>}

\* answers to "Pilih nomor: " that are none of 1..5
OtherChoices ==
    {<<>>,
     <<"6">>}

\* values of datetime.now()
NowValues ==
    {datetime(2026, 2, 5, 14, 30, 0, 0, NoTz), datetime(2026, 2, 5, 23, 59, 30, 500000, NoTz)}

\* the due texts found in files met at start-up
IsoA == <<"2", "0", "2", "6", "-", "0", "2", "-", "0", "5", "T", "1", "4", ":", "3", "0", ":", "0", "0">>

IsoDateOnly == <<"2", "0", "2", "6", "-", "0", "2", "-", "0", "5">>

IsoBad == <<"b", "e", "s", "o", "k">>

\* the basic form of IsoA, to the minute
IsoBasic == <<"2", "0", "2", "6", "0", "2", "0", "5", "T", "1", "4", "3", "0">>

\* an ISO week date (Thursday of week 6 of 2026 is 2026-02-05) with a
\* fraction of a second
IsoWeekFraction ==
    <<"2", "0", "2", "6", "-", "W", "0", "6", "-", "4", " ",
      "2", "3", ":", "5", "9", ":", "3", "0", ",", "7", "5">>

\* IsoA at UTC+07:00
IsoOffset ==
    <<"2", "0", "2", "6", "-", "0", "2", "-", "0", "5", "T", "1", "4", ":", "3", "0", ":", "0", "0",
      "+", "0", "7", ":", "0", "0">>

\* IsoA to the minute in UTC, written with Z and a U+0000 after it
IsoZuluNul ==
    <<"2", "0", "2", "6", "-", "0", "2", "-", "0", "5", "T", "1", "4", ":", "3", "0", "Z", NUL>>

\* the files met at start-up
InitialFiles ==
    {NoFile,
     NotJson,
     JsonFile(<<>>),
     JsonFile(<<[name |-> <<"a">>, due |-> IsoA], [name |-> <<"b">>, due |-> IsoDateOnly]>>),
     JsonFile(<<[name |-> <<"a">>]>>),
     JsonFile(<<[due |-> IsoA]>>),
     JsonFile(<<[name |-> <<"a">>, due |-> IsoBad]>>),
     JsonFile(<<[name |-> <<"a">>, due |-> IsoA], [name |-> <<"b">>]>>),
     JsonFile(<<[name |-> <<" ">>, due |-> IsoA]>>),
     JsonFile(<<[name |-> <<"a">>, due |-> IsoWeekFraction], [name |-> <<"b">>, due |-> IsoBasic]>>),
     JsonFile(<<[name |-> <<"a">>, due |-> IsoOffset]>>),
     JsonFile(<<[name |-> <<"a">>, due |-> IsoA], [name |-> <<"a">>, due |-> IsoZuluNul]>>)}

(***************************************************************************)
(* What the program prints, by which an operation's outcome is told.       *)
(***************************************************************************)
MsgEmptyName == "Nama tugas tidak boleh kosong."

MsgBadDate == "Format tanggal tidak dikenali."

MsgAdded == "ditambahkan"

MsgNoTasks == "Tidak ada tugas."

MsgListed == "Daftar tugas"

MsgNothingToRemove == "Tidak ada tugas untuk dihapus."

MsgNotANumber == "Masukkan nomor yang valid."

MsgBadIndex == "Nomor tugas tidak valid."

MsgRemoved == "dihapus"

MsgCleared == "Semua tugas dihapus."

MsgCancelled == "Dibatalkan."

MsgBye == "Sampai jumpa!"

MsgUnknownChoice == "Pilihan tidak dikenali."

(***************************************************************************)
(* State.  pc: where main is ("start", "menu", "exit", or "crashed" by an  *)
(* uncaught exception); tasks: the list; file: tasks.json; last: the last  *)
(* operation, what was typed to it (asked: the prompts it came to), what   *)
(* it printed, and the list and the file as they were when it began.       *)
(***************************************************************************)
Op(op, result) ==
    [op |-> op, asked |-> {}, name |-> <<>>, due |-> <<>>, idx |-> <<>>, confirm |-> <<>>,
     now |-> None, result |-> result, out |-> <<>>,
     preTasks |-> tasks, preFile |-> file]

Init ==
    /\ pc = "start"
    /\ tasks = <<>>
    /\ file \in InitialFiles
    /\ last = Op("none", "")

\* tasks = load_tasks() in main
Load ==
    /\ pc = "start"
    /\ LET r == load_tasks(file)
       IN IF r.err = ""
          THEN /\ pc' = "menu"
               /\ tasks' = r.tasks
               /\ last' = Op("load", "loaded")
          ELSE /\ pc' = "crashed"
               /\ tasks' = <<>>
               /\ last' = Op("load", r.err)
    /\ UNCHANGED file

\* (a wrong add_task: the name is tested before it is stripped)
add_task_untrimmed(nameInput, dueInput) ==
    LET name == strip(nameInput)
        due == parse_datetime(strip(dueInput))
    IN IF nameInput = <<>>
       THEN /\ last' = [Op("add", MsgEmptyName) EXCEPT !.asked = {"name"}, !.name = nameInput]
            /\ UNCHANGED <<tasks, file>>
       ELSE IF due = None
       THEN /\ last' = [Op("add", MsgBadDate)
                            EXCEPT !.asked = {"name", "due"}, !.name = nameInput, !.due = dueInput]
            /\ UNCHANGED <<tasks, file>>
       ELSE /\ tasks' = Append(tasks, Task(name, due))
            /\ file' = save_tasks(tasks')
            /\ last' = [Op("add", MsgAdded)
                            EXCEPT !.asked = {"name", "due"}, !.name = nameInput, !.due = dueInput]

add_task(nameInput, dueInput) ==
    LET name == strip(nameInput)
        due_str == strip(dueInput)
        due == parse_datetime(due_str)
    IN IF name = <<>>
       THEN /\ last' = [Op("add", MsgEmptyName) EXCEPT !.asked = {"name"}, !.name = nameInput]
            /\ UNCHANGED <<tasks, file>>
       ELSE IF due = None
       THEN /\ last' = [Op("add", MsgBadDate)
                            EXCEPT !.asked = {"name", "due"}, !.name = nameInput, !.due = dueInput]
            /\ UNCHANGED <<tasks, file>>
       ELSE /\ tasks' = Append(tasks, Task(name, due))
            /\ file' = save_tasks(tasks')
            /\ last' = [Op("add", MsgAdded)
                            EXCEPT !.asked = {"name", "due"}, !.name = nameInput, !.due = dueInput]

\* choice "1"
AddTask ==
    /\ pc = "menu"
    /\ Len(tasks) < MaxTasks
    /\ \E nameInput \in NameInputs : \E dueInput \in DueInputs :
           add_task(nameInput, dueInput)
    /\ UNCHANGED pc

\* choice "2"
ListTasks ==
    /\ pc = "menu"
    /\ IF tasks = <<>>
       THEN /\ last' = Op("list", MsgNoTasks)
            /\ UNCHANGED pc
       ELSE \E now \in NowValues :
                LET shown == list_tasks(tasks, now)
                IN IF shown.err # ""
                   THEN /\ pc' = "crashed"
                        /\ last' = [Op("list", shown.err) EXCEPT !.now = shown.now]
                   ELSE /\ last' = [Op("list", MsgListed)
                                       EXCEPT !.now = now, !.out = shown.lines]
                        /\ UNCHANGED pc
    /\ UNCHANGED <<tasks, file>>

valid_index(idx, n) == ~(idx < 1 \/ idx > n)

\* remove_task; the number is asked for after list_tasks returned
remove_task(idxInput, now) ==
    IF tasks = <<>>
    THEN /\ last' = Op("remove", MsgNothingToRemove)
         /\ UNCHANGED <<pc, tasks, file>>
    ELSE LET shown == list_tasks(tasks, now)
             idx == int(idxInput)
             tasks_sorted == sorted_by_due(tasks)
             began == [Op("remove", "")
                          EXCEPT !.asked = {"idx"}, !.idx = idxInput, !.now = now,
                                 !.out = shown.lines]
         IN IF shown.err # ""
            THEN /\ pc' = "crashed"
                 /\ last' = [Op("remove", shown.err) EXCEPT !.now = shown.now]
                 /\ UNCHANGED <<tasks, file>>
            ELSE IF ~idx.ok
            THEN /\ last' = [began EXCEPT !.result = MsgNotANumber]
                 /\ UNCHANGED <<pc, tasks, file>>
            ELSE IF ~valid_index(idx.val, Len(tasks_sorted))
            THEN /\ last' = [began EXCEPT !.result = MsgBadIndex]
                 /\ UNCHANGED <<pc, tasks, file>>
            ELSE /\ tasks' = list_remove(tasks, tasks_sorted[idx.val])
                 /\ file' = save_tasks(tasks')
                 /\ last' = [began EXCEPT !.result = MsgRemoved]
                 /\ UNCHANGED pc

\* choice "3"
RemoveTask ==
    /\ pc = "menu"
    /\ \E idxInput \in IndexInputs : \E now \in NowValues : remove_task(idxInput, now)

\* (a wrong clear_tasks: the list is emptied and the file left as it was)
clear_tasks_unsaved(confirm) ==
    IF lower(confirm) = <<"y">>
    THEN /\ tasks' = <<>>
         /\ last' = [Op("clear", MsgCleared) EXCEPT !.asked = {"confirm"}, !.confirm = confirm]
         /\ UNCHANGED file
    ELSE /\ last' = [Op("clear", MsgCancelled) EXCEPT !.asked = {"confirm"}, !.confirm = confirm]
         /\ UNCHANGED <<tasks, file>>

clear_tasks(confirm) ==
    IF lower(confirm) = <<"y">>
    THEN /\ tasks' = <<>>
         /\ file' = save_tasks(tasks')
         /\ last' = [Op("clear", MsgCleared) EXCEPT !.asked = {"confirm"}, !.confirm = confirm]
    ELSE /\ last' = [Op("clear", MsgCancelled) EXCEPT !.asked = {"confirm"}, !.confirm = confirm]
         /\ UNCHANGED <<tasks, file>>

\* choice "4"
ClearTasks ==
    /\ pc = "menu"
    /\ \E confirm \in ConfirmInputs : clear_tasks(confirm)
    /\ UNCHANGED pc

\* choice "5"
Quit ==
    /\ pc = "menu"
    /\ pc' = "exit"
    /\ last' = Op("quit", MsgBye)
    /\ UNCHANGED <<tasks, file>>

\* any other choice
UnknownChoice ==
    /\ pc = "menu"
    /\ \E choice \in OtherChoices : last' = [Op("choice", MsgUnknownChoice) EXCEPT !.name = choice]
    /\ UNCHANGED <<pc, tasks, file>>

Next ==
    \/ Load
    \/ AddTask
    \/ ListTasks
    \/ RemoveTask
    \/ ClearTasks
    \/ Quit
    \/ UnknownChoice

Spec == Init /\ [][Next]_vars

(***************************************************************************)
(* Notions the properties are stated in.                                   *)
(***************************************************************************)
\* s without its i-th element
DeleteAt(s, i) == SubSeq(s, 1, i - 1) \o SubSeq(s, i + 1, Len(s))

\* the permutations of 1..n
Perms(n) == {p \in [1..n -> 1..n] : \A i, j \in 1..n : p[i] = p[j] => i = j}

\* the calendar day and the second of the day as numbers
DayNo(dt) == (dt.year * 13 + dt.month) * 32 + dt.day

SecNo(dt) == (dt.hour * 60 + dt.minute) * 60 + dt.second

\* a is strictly before b
Before(a, b) ==
    \/ DayNo(a) < DayNo(b)
    \/ DayNo(a) = DayNo(b) /\ SecNo(a) < SecNo(b)
    \/ DayNo(a) = DayNo(b) /\ SecNo(a) = SecNo(b) /\ a.microsecond < b.microsecond

\* the list is in due order
InDueOrder(ts) == \A i, j \in 1..Len(ts) : i < j => ~Before(ts[j].due, ts[i].due)

\* main is between two operations, or has left the loop
Settled == pc \in {"menu", "exit"}

\* the last operation was an add whose name was accepted, so that the due
\* text was read
DueWasRead == last.op = "add" /\ "due" \in last.asked

\* the last operation removed, with an index in range
RemoveInRange ==
    /\ last.op = "remove"
    /\ "idx" \in last.asked
    /\ int(last.idx).ok
    /\ int(last.idx).val >= 1
    /\ int(last.idx).val <= Len(last.preTasks)

Unchanged == tasks = last.preTasks /\ file = last.preFile

(***************************************************************************)
(* C1 - persistence after mutation.                                        *)
(***************************************************************************)
\* C1: once the list is loaded, and after every operation, accepted or
\* rejected, a file that exists holds exactly the tasks of the list, one
\* for one and in the list's own (insertion) order.
C1_FileMirrorsTasks ==
    (Settled /\ file.exists) =>
        load_tasks(file) = [err |-> "", tasks |-> tasks]

\* a removal has been saved and the list is not in due order
C1_Witness ==
    /\ Settled
    /\ file.exists
    /\ last.result = MsgRemoved
    /\ Len(tasks) >= 2
    /\ ~InDueOrder(tasks)

(***************************************************************************)
(* C2 - round trip through the file.                                       *)
(***************************************************************************)
\* C2: after an add with a non-empty name and a parsable due text, loading
\* the file gives the tasks held before the add, unchanged and in order,
\* followed by one task with the trimmed name and the parsed due.
C2_AddRoundTrip ==
    (DueWasRead /\ parse_datetime(last.due) # None) =>
        load_tasks(file) =
            [err |-> "",
             tasks |-> Append(last.preTasks,
                              Task(strip(last.name), parse_datetime(last.due)))]

\* a task with a name typed with blanks around it was added after others
C2_Witness ==
    /\ DueWasRead
    /\ last.result = MsgAdded
    /\ last.name # strip(last.name)
    /\ Len(last.preTasks) >= 1
    /\ Len(tasks) = Len(last.preTasks) + 1

(***************************************************************************)
(* C3 - validation failures change nothing.                                *)
(***************************************************************************)
ValidationFailures == {MsgEmptyName, MsgBadDate, MsgNothingToRemove, MsgNotANumber, MsgBadIndex}

RejectedAdd ==
    /\ last.op = "add"
    /\ (strip(last.name) = <<>> \/ parse_datetime(last.due) = None)

\* the number was asked for, and the answer is not a number of a task
RejectedRemove ==
    /\ last.op = "remove"
    /\ "idx" \in last.asked
    /\ \/ ~int(last.idx).ok
       \/ int(last.idx).val < 1
       \/ int(last.idx).val > Len(last.preTasks)

\* there was nothing to remove
RemoveOnEmpty == last.op = "remove" /\ last.preTasks = <<>>

\* C3: an add with an empty or blank name or an unparsable due text, and a
\* remove with an index that is not a number, is below 1 or is above the
\* number of tasks, or on an empty list, end in a failure message and leave
\* list and file as they were.
C3_RejectedLeavesState ==
    (RejectedAdd \/ RejectedRemove \/ RemoveOnEmpty) =>
        (pc = "menu" /\ last.result \in ValidationFailures /\ Unchanged)

\* an index above the number of tasks was refused on a non-empty list
C3_Witness ==
    /\ RejectedRemove
    /\ last.result = MsgBadIndex
    /\ tasks # <<>>
    /\ file.exists
    /\ int(last.idx).val > Len(tasks)

(***************************************************************************)
(* C4 - remove takes the task at the display position.                     *)
(***************************************************************************)
\* C4: a remove with an index i in range leaves a list whose due-sorted
\* view is the earlier due-sorted view without its i-th entry, one task
\* shorter, the other tasks in their earlier relative order.
C4_RemovesDisplayed ==
    RemoveInRange =>
        /\ sorted_by_due(tasks) =
               DeleteAt(sorted_by_due(last.preTasks), int(last.idx).val)
        /\ Len(tasks) = Len(last.preTasks) - 1
        /\ \E k \in 1..Len(last.preTasks) : tasks = DeleteAt(last.preTasks, k)

(***************************************************************************)
(* C5 - the listing.                                                       *)
(***************************************************************************)
\* C5: listing any list gives a permutation of it, numbered 1..n, in
\* non-decreasing due order, tasks of equal due in their order in the list;
\* listing changes neither the list nor the file.
C5_ListingSortedStable ==
    (last.op = "list") =>
        /\ pc = "menu"
        /\ Len(last.out) = Len(tasks)
        /\ \A i \in 1..Len(last.out) : last.out[i].index = i
        /\ \E p \in Perms(Len(tasks)) :
              /\ \A i \in 1..Len(tasks) : last.out[i].task = tasks[p[i]]
              /\ \A i, j \in 1..Len(tasks) :
                    i < j =>
                        /\ ~Before(tasks[p[j]].due, tasks[p[i]].due)
                        /\ (tasks[p[i]].due = tasks[p[j]].due => p[i] < p[j])
        /\ Unchanged

(***************************************************************************)
(* C6 - clear.                                                             *)
(***************************************************************************)
\* the answers that confirm
Affirmative == {<<"y">>, <<"Y">>}

\* C6: a clear that is not confirmed leaves list and file as they were; a
\* confirmed one leaves the list empty and the file holding the empty
\* sequence, which loads as no tasks.
C6_ClearContract ==
    (last.op = "clear") =>
        IF last.confirm \in Affirmative
        THEN /\ tasks = <<>>
             /\ file.exists /\ file.json /\ Len(file.data) = 0
             /\ load_tasks(file) = [err |-> "", tasks |-> <<>>]
        ELSE Unchanged

\* a non-empty list with its file was cleared
C6_Witness ==
    /\ last.op = "clear"
    /\ last.confirm \in Affirmative
    /\ last.preTasks # <<>>
    /\ Len(last.preFile.data) > 0
    /\ tasks = <<>>

(***************************************************************************)
(* C7 - load.                                                              *)
(***************************************************************************)
\* the exceptions by which load_tasks reports a malformed file
MalformedDataError == {"JSONDecodeError", "KeyError", "ValueError"}

BadEntry(d) ==
    \/ "name" \notin DOMAIN d
    \/ "due" \notin DOMAIN d
    \/ fromisoformat(d["due"]) = None

\* C7: a file with an entry lacking due or name, or with an unparsable
\* timestamp, makes the load fail with no list, not even of the entries
\* before it; a load that succeeds gives one task per entry; with no file
\* the load gives the empty list.
C7_LoadAllOrNothing ==
    (last.op = "load") =>
        /\ (~last.preFile.exists) => (pc = "menu" /\ tasks = <<>>)
        /\ (last.preFile.json /\ \E i \in 1..Len(last.preFile.data) :
                                     BadEntry(last.preFile.data[i]))
               => (pc = "crashed" /\ tasks = <<>> /\ last.result \in MalformedDataError)
        /\ (pc = "menu" /\ last.preFile.exists) => Len(tasks) = Len(last.preFile.data)

\* the load of a file whose second entry lacks due has failed
C7_Witness ==
    /\ last.op = "load"
    /\ pc = "crashed"
    /\ Len(last.preFile.data) = 2
    /\ ~BadEntry(last.preFile.data[1])
    /\ "due" \notin DOMAIN last.preFile.data[2]

(***************************************************************************)
(* C8 - parse_datetime.                                                    *)
(***************************************************************************)
DigitsAt(t, ps) == \A i \in ps : IsDigit(t[i])

\* t is written YYYY-MM-DD
ShapeDate(t) ==
    /\ Len(t) = 10
    /\ DigitsAt(t, {1, 2, 3, 4, 6, 7, 9, 10})
    /\ t[5] = "-" /\ t[8] = "-"

\* t is written YYYY-MM-DD HH:MM
ShapeDateTime(t) ==
    /\ Len(t) = 16
    /\ ShapeDate(SubSeq(t, 1, 10))
    /\ t[11] = " "
    /\ DigitsAt(t, {12, 13, 15, 16})
    /\ t[14] = ":"

\* the date and time a text of either shape names (None if there is none)
Named(t) ==
    datetime(NumVal(SubSeq(t, 1, 4)), NumVal(SubSeq(t, 6, 7)), NumVal(SubSeq(t, 9, 10)),
             IF Len(t) = 16 THEN NumVal(SubSeq(t, 12, 13)) ELSE 23,
             IF Len(t) = 16 THEN NumVal(SubSeq(t, 15, 16)) ELSE 59,
             0, 0, NoTz)

\* the text names a date, or a date and time, in one of the two formats
InFormat(t) == (ShapeDate(t) \/ ShapeDateTime(t)) /\ Named(t) # None

\* the outcome of the add tells what parse_datetime returned
Parsed(dt) == last.result = MsgAdded /\ tasks # <<>> /\ tasks[Len(tasks)].due = dt

NotParsed == last.result = MsgBadDate /\ Unchanged

\* C8 as stated: a text in one of the two formats gives the date and time
\* it names (23:59 for a date alone), and every other text gives no result.
C8_ExactlyTwoFormats ==
    DueWasRead =>
        LET t == strip(last.due)
        IN IF InFormat(t) THEN Parsed(Named(t)) ELSE NotParsed

RECURSIVE DigitRun(_)
DigitRun(s) ==
    IF s # <<>> /\ IsDigit(Head(s)) THEN <<Head(s)>> \o DigitRun(Tail(s)) ELSE <<>>

RECURSIVE SpaceRun(_)
SpaceRun(s) ==
    IF s # <<>> /\ IsSpace(Head(s)) THEN <<Head(s)>> \o SpaceRun(Tail(s)) ELSE <<>>

Drop(s, n) == SubSeq(s, n + 1, Len(s))

StartsWith(s, c) == s # <<>> /\ Head(s) = c

\* t read from left to right as: a year of four digits, "-", a month of one
\* or two digits, "-", a day of one or two digits (one digit may have one
\* space before it), and then either nothing, or whitespace, an hour of one
\* or two digits, ":", a minute of one or two digits.  None if t is not so
\* written or names no date and time.
ReadLeniently(t) ==
    LET y == DigitRun(t)
        a == Drop(t, Len(y))
        mo == DigitRun(Drop(a, 1))
        b == Drop(a, 1 + Len(mo))
        pad == IF /\ Len(b) >= 3
                  /\ b[2] = " "
                  /\ b[3] \in NonZeroDigits
                  /\ (Len(b) > 3 => ~IsDigit(b[4]))
               THEN 1 ELSE 0
        d == DigitRun(Drop(b, 1 + pad))
        c == Drop(b, 1 + pad + Len(d))
        ws == SpaceRun(c)
        h == DigitRun(Drop(c, Len(ws)))
        e == Drop(c, Len(ws) + Len(h))
        mi == DigitRun(Drop(e, 1))
        f == Drop(e, 1 + Len(mi))
        dateOk == /\ Len(y) = 4
                  /\ StartsWith(a, "-")
                  /\ Len(mo) \in {1, 2}
                  /\ StartsWith(b, "-")
                  /\ Len(d) \in {1, 2}
        timeOk == /\ Len(ws) >= 1
                  /\ Len(h) \in {1, 2}
                  /\ StartsWith(e, ":")
                  /\ Len(mi) \in {1, 2}
                  /\ f = <<>>
    IN IF dateOk /\ c = <<>>
       THEN datetime(NumVal(y), NumVal(mo), NumVal(d), 23, 59, 0, 0, NoTz)
       ELSE IF dateOk /\ timeOk
       THEN datetime(NumVal(y), NumVal(mo), NumVal(d), NumVal(h), NumVal(mi), 0, 0, NoTz)
       ELSE None

\* C8 amended: a text in one of the two formats gives the date and time it
\* names (23:59 for a date alone); so does a text that differs from them
\* only by one-digit months, days, hours or minutes, by one space before a
\* one-digit day, or by other whitespace between date and time; every
\* other text gives no result.
C8_TwoFormatsLenient ==
    DueWasRead =>
        LET t == strip(last.due)
        IN /\ InFormat(t) => Parsed(Named(t))
           /\ IF ReadLeniently(t) # None THEN Parsed(ReadLeniently(t)) ELSE NotParsed

\* a date alone, in the format, was added at 23:59
C8_Witness ==
    /\ DueWasRead
    /\ ShapeDate(strip(last.due))
    /\ last.result = MsgAdded
    /\ tasks[Len(tasks)].due.hour = 23
    /\ tasks[Len(tasks)].due.minute = 59

(***************************************************************************)
(* C9 - the overdue mark.                                                  *)
(***************************************************************************)
\* C9: a listed task is marked overdue exactly when its due is strictly
\* before the time of the listing; a task due at that very time is not.
C9_OverdueIffBefore ==
    (last.op = "list") =>
        \A i \in 1..Len(last.out) :
            last.out[i].overdue <=> Before(last.out[i].task.due, last.now)

\* a listing with a task due at the time of the listing, not marked, and
\* an earlier one, marked
C9_Witness ==
    /\ last.op = "list"
    /\ \E i, j \in 1..Len(last.out) :
          /\ last.out[i].task.due = last.now /\ ~last.out[i].overdue
          /\ last.out[j].overdue

(***************************************************************************)
(* C10 - names are never blank.                                            *)
(***************************************************************************)
\* C10: once the list is loaded, and after every operation, every task of
\* the list and of the file has a name that is not empty when trimmed.
C10_NamesNotBlank ==
    Settled =>
        /\ \A i \in 1..Len(tasks) : strip(tasks[i].name) # <<>>
        /\ (file.exists /\ file.json) =>
               \A i \in 1..Len(file.data) : strip(file.data[i]["name"]) # <<>>

====
